---- MODULE Spec2Model ----
(***************************************************************************)
(* The move-decision engine of SmartestBotClient (minimax with alpha-beta  *)
(* over a flood-fill heuristic) and the flood fill of SmarterBotClient.    *)
(* The search is modelled as the machine the C++ call stack executes: one  *)
(* frame per active minimax call, one action per loop iteration, call and  *)
(* return.                                                                 *)
(***************************************************************************)
EXTENDS Integers, Sequences, FiniteSets, TLC

\* Largest board area (gridWidth * gridHeight) of the snapshots explored.
MaxCells == 8
\* Largest board area explored by the step-by-step (flood fill included) run.
MaxCellsLive == 5
\* Largest board area and number of turns of the receive-decide-send loop.
MaxCellsTurns == 3
MaxTurns == 2

\* Largest board area of the states minimax is called on by itself.
MaxCellsSearch == 6

MAX_DEPTH == 3
INT_MIN == -2147483647 - 1
INT_MAX == 2147483647

VARIABLES
  state,      \* GameState state: the turn's snapshot
  my_player,  \* Player my_player
  opponent,   \* Player opponent
  pc,         \* position of the engine in run / decideMove / minimax / floodFill
  dir_value,  \* decideMove's loop counter
  bestScore,  \* decideMove's bestScore
  bestMove,   \* decideMove's bestMove
  scores,     \* decideMove's local `score` of each direction it searched
  stack,      \* the active minimax calls, outermost first
  ret,        \* the value the last finished minimax call returned
  lastEval,   \* the arguments and result of the last evaluate call
  root,       \* depth and side to move of the outermost minimax call
  fl,         \* the locals of the running floodFill call
  turn,       \* number of snapshots this process has received
  sentDir,    \* the direction the last sendMove sent
  other       \* the last turn of an earlier process with the same bot name

vars == <<state, my_player, opponent, pc, dir_value, bestScore, bestMove,
          scores, stack, ret, lastEval, root, fl, turn, sentDir, other>>

-----------------------------------------------------------------------------
(* api.h / utils.h: positions, directions, the grid *)

Vec(a, b) == [x |-> a, y |-> b]

Directions == 0 .. 3

\* Up, Down, Left, Right as direction values 0, 1, 2, 3.
getDirectionVector(dir) ==
  CASE dir = 0 -> Vec(0, -1)
    [] dir = 1 -> Vec(0, 1)
    [] dir = 2 -> Vec(-1, 0)
    [] dir = 3 -> Vec(1, 0)

VecAdd(p, v) == Vec(p.x + v.x, p.y + v.y)

Cells(w, h) == { Vec(i, j) : i \in 0 .. (w - 1), j \in 0 .. (h - 1) }

isInsideGrid(gameState, pos) ==
  /\ pos.x >= 0 /\ pos.x < gameState.gridWidth
  /\ pos.y >= 0 /\ pos.y < gameState.gridHeight

\* The grid is kept as the set of its non-zero cells.
getGridCell(gameState, pos) == IF pos \in gameState.grid THEN 1 ELSE 0

setGridCell(gameState, pos) ==
  [gameState EXCEPT !.grid = gameState.grid \cup {pos}]

-----------------------------------------------------------------------------
(* floodFill *)

\* The four pushes of the inner loop, in direction order.
Neighbours(pos) == [d \in 1 .. 4 |-> VecAdd(pos, getDirectionVector(d - 1))]

\* The loop without the test of the cell's occupancy.
FloodStepThroughWalls(gameState, f) ==
  LET pos == Head(f.queue)
      rest == Tail(f.queue)
  IN  IF ~isInsideGrid(gameState, pos) THEN [f EXCEPT !.queue = rest]
      ELSE IF pos \in f.visited THEN [f EXCEPT !.queue = rest]
      ELSE [f EXCEPT !.queue = rest \o Neighbours(pos),
                     !.visited = f.visited \cup {pos},
                     !.area = f.area + 1]

\* One iteration of `while (!queue.empty())`.
FloodStep(gameState, f) ==
  LET pos == Head(f.queue)
      rest == Tail(f.queue)
  IN  IF ~isInsideGrid(gameState, pos) THEN [f EXCEPT !.queue = rest]
      ELSE IF pos \in f.visited THEN [f EXCEPT !.queue = rest]
      ELSE IF getGridCell(gameState, pos) # 0 THEN [f EXCEPT !.queue = rest]
      ELSE [f EXCEPT !.queue = rest \o Neighbours(pos),
                     !.visited = f.visited \cup {pos},
                     !.area = f.area + 1]

\* The locals of floodFill on entry; `visited` is all false in SmartestBotClient
\* and the caller's vector in SmarterBotClient.
FloodEntry(start_pos, visited) ==
  [queue |-> <<start_pos>>, visited |-> visited, area |-> 0]

RECURSIVE FloodRun(_, _)
FloodRun(gameState, f) ==
  IF f.queue = <<>> THEN f ELSE FloodRun(gameState, FloodStep(gameState, f))

floodFill(gameState, start_pos) ==
  FloodRun(gameState, FloodEntry(start_pos, {})).area

-----------------------------------------------------------------------------
(* SmartestBotClient: legality, move application, evaluation *)

is_valid_move(gameState, player, direction) ==
  LET new_pos == VecAdd(player.position, getDirectionVector(direction))
  IN  IF ~isInsideGrid(gameState, new_pos) THEN FALSE
      ELSE IF getGridCell(gameState, new_pos) # 0 THEN FALSE
      ELSE TRUE

\* movePlayer changes both of its reference arguments; the pair is returned.
movePlayer(gameState, player, dir) ==
  LET new_pos == VecAdd(player.position, getDirectionVector(dir))
  IN  [gameState |-> setGridCell(gameState, new_pos),
       player |-> [player EXCEPT !.position = new_pos]]

\* A reference in place of a copy: the original is the moved object.
CopiedFromAliased(original, moved) == moved

\* `GameState newGameState = gameState; Player newMyPlayer = my_player;` are
\* copies: what the copied-from object holds once the copy has been moved.
CopiedFrom(original, moved) == original

game_over(gameState) ==
  LET my_moves == \E d \in Directions : is_valid_move(gameState, my_player, d)
      opp_moves == \E d \in Directions : is_valid_move(gameState, opponent, d)
  IN  ~(my_moves \/ opp_moves)

\* The two floodFill calls of evaluate: their start positions.
EvalMyStart == my_player.position
EvalOppStart == opponent.position

evaluate(gameState) ==
  LET my_area == floodFill(gameState, EvalMyStart)
      opp_area == floodFill(gameState, EvalOppStart)
  IN  my_area - opp_area

-----------------------------------------------------------------------------
(* The call stack of minimax *)

\* A minimax call: its parameters, its loop counter, maxEval / minEval (best),
\* and, from the caller's loop body, which player the caller moved and the
\* caller's moved copy of it (newMyPlayer / newOpponent).
Call(gameState, depth, maximizingPlayer, alpha, beta, mover, newPlayer) ==
  [gameState |-> gameState, depth |-> depth,
   maximizingPlayer |-> maximizingPlayer, alpha |-> alpha, beta |-> beta,
   dir_value |-> 0,
   best |-> IF maximizingPlayer THEN INT_MIN ELSE INT_MAX,
   mover |-> mover, newPlayer |-> newPlayer]

Top == stack[Len(stack)]
Pop(s) == SubSeq(s, 1, Len(s) - 1)
SetTop(s, f) == [s EXCEPT ![Len(s)] = f]

Max(a, b) == IF a >= b THEN a ELSE b
Min(a, b) == IF a <= b THEN a ELSE b

NoEval == [called |-> FALSE, gameState |-> [gridWidth |-> 0, gridHeight |-> 0,
           grid |-> {}, players |-> <<>>], depth |-> 0,
           my_start |-> Vec(0, 0), opp_start |-> Vec(0, 0), value |-> 0]

EmptyState == [gridWidth |-> 0, gridHeight |-> 0, grid |-> {}, players |-> <<>>]

NoFlood == [queue |-> <<>>, visited |-> {}, area |-> 0, gameState |-> EmptyState,
            start |-> Vec(0, 0), visitedIn |-> {}, caller |-> "none",
            my_area |-> 0]

\* The locals of a floodFill call that is run step by step, with its
\* arguments and, for evaluate, the caller's my_area.
FloodCall(gameState, start_pos, visited, caller, my_area) ==
  [queue |-> <<start_pos>>, visited |-> visited, area |-> 0,
   gameState |-> gameState, start |-> start_pos, visitedIn |-> visited,
   caller |-> caller, my_area |-> my_area]

NoOther == [set |-> FALSE, snapshot |-> EmptyState, dir |-> 0]

\* decideMove calls minimax with MAX_DEPTH - 1 and maximizingPlayer = false.
DecideRoot == [depth |-> MAX_DEPTH - 1, maximizingPlayer |-> FALSE]

\* `if (depth == 0 || game_over(gameState))`
IsLeaf(f) == f.depth = 0 \/ game_over(f.gameState)

\* A loop counter that is not advanced.
NextDirStuck(d) == d

\* The next value of the loop counter of a for loop.
NextDir(d) == d + 1

\* `if (beta <= alpha) break;`
Cutoff(alpha, beta) == beta <= alpha

\* A recursive call that hands on its own depth.
ChildDepthSame(depth) == depth

\* The depth and the side to move handed to the recursive call.
ChildDepth(depth) == depth - 1
ChildSide(maximizingPlayer) == ~maximizingPlayer

-----------------------------------------------------------------------------
(* decideMove *)

\* `if (is_valid_move(state, my_player, dir))`: move a copy, call minimax.
DecideTry ==
  /\ pc = "decide"
  /\ dir_value < 4
  /\ is_valid_move(state, my_player, dir_value)
  /\ LET m == movePlayer(state, my_player, dir_value)
     IN  /\ state' = CopiedFrom(state, m.gameState)
         /\ my_player' = CopiedFrom(my_player, m.player)
         /\ stack' = <<Call(m.gameState, DecideRoot.depth,
                            DecideRoot.maximizingPlayer, INT_MIN, INT_MAX,
                            "my_player", m.player)>>
  /\ pc' = "call"
  /\ UNCHANGED <<opponent, dir_value, bestScore, bestMove, scores, ret,
                 lastEval, root, fl, turn, sentDir, other>>

\* The direction is not legal for my_player: next iteration.
DecideSkip ==
  /\ pc = "decide"
  /\ dir_value < 4
  /\ ~is_valid_move(state, my_player, dir_value)
  /\ dir_value' = NextDir(dir_value)
  /\ UNCHANGED <<state, my_player, opponent, pc, bestScore, bestMove, scores,
                 stack, ret, lastEval, root, fl, turn, sentDir, other>>

\* The outermost minimax call returned: `if (score > bestScore)`.
DecideCollect ==
  /\ pc = "ret"
  /\ stack = <<>>
  /\ LET score == ret
     IN  /\ scores' = (dir_value :> score) @@ scores
         /\ IF score > bestScore
              THEN bestScore' = score /\ bestMove' = dir_value
              ELSE UNCHANGED <<bestScore, bestMove>>
  /\ dir_value' = NextDir(dir_value)
  /\ ret' = 0
  /\ pc' = "decide"
  /\ UNCHANGED <<state, my_player, opponent, stack, lastEval, root, fl, turn,
                 sentDir, other>>

\* `return bestMove;`
DecideReturn ==
  /\ pc = "decide"
  /\ dir_value >= 4
  /\ pc' = "done"
  /\ UNCHANGED <<state, my_player, opponent, dir_value, bestScore, bestMove,
                 scores, stack, ret, lastEval, root, fl, turn, sentDir, other>>

-----------------------------------------------------------------------------
(* minimax *)

\* The call just entered is at depth 0 or the game is over: evaluate, return.
MinimaxLeaf ==
  /\ pc = "call"
  /\ IsLeaf(Top)
  /\ ret' = evaluate(Top.gameState)
  /\ lastEval' = [called |-> TRUE, gameState |-> Top.gameState,
                  depth |-> Top.depth,
                  my_start |-> EvalMyStart, opp_start |-> EvalOppStart,
                  value |-> evaluate(Top.gameState)]
  /\ stack' = Pop(stack)
  /\ pc' = "ret"
  /\ UNCHANGED <<state, my_player, opponent, dir_value, bestScore, bestMove,
                 scores, root, fl, turn, sentDir, other>>

\* Otherwise the call enters its loop.
MinimaxBegin ==
  /\ pc = "call"
  /\ ~IsLeaf(Top)
  /\ pc' = "loop"
  /\ UNCHANGED <<state, my_player, opponent, dir_value, bestScore, bestMove,
                 scores, stack, ret, lastEval, root, fl, turn, sentDir, other>>

\* The player the running call moves: my_player when maximizing, else opponent.
Mover(f) == IF f.maximizingPlayer THEN my_player ELSE opponent
MoverName(f) == IF f.maximizingPlayer THEN "my_player" ELSE "opponent"

\* A legal direction of the loop: move copies, recurse.
MinimaxTry ==
  /\ pc = "loop"
  /\ Top.dir_value < 4
  /\ is_valid_move(Top.gameState, Mover(Top), Top.dir_value)
  /\ LET f == Top
         m == movePlayer(f.gameState, Mover(f), f.dir_value)
         kept == [f EXCEPT !.gameState = CopiedFrom(f.gameState, m.gameState)]
     IN  /\ stack' = Append(SetTop(stack, kept),
                       Call(m.gameState, ChildDepth(f.depth),
                            ChildSide(f.maximizingPlayer), f.alpha, f.beta,
                            MoverName(f), m.player))
         /\ IF f.maximizingPlayer
              THEN /\ my_player' = CopiedFrom(my_player, m.player)
                   /\ UNCHANGED opponent
              ELSE /\ opponent' = CopiedFrom(opponent, m.player)
                   /\ UNCHANGED my_player
  /\ pc' = "call"
  /\ UNCHANGED <<state, dir_value, bestScore, bestMove, scores, ret,
                 lastEval, root, fl, turn, sentDir, other>>

\* A direction that is not legal for the mover: next iteration.
MinimaxSkip ==
  /\ pc = "loop"
  /\ Top.dir_value < 4
  /\ ~is_valid_move(Top.gameState, Mover(Top), Top.dir_value)
  /\ stack' = SetTop(stack, [Top EXCEPT !.dir_value = NextDir(@)])
  /\ UNCHANGED <<state, my_player, opponent, pc, dir_value, bestScore,
                 bestMove, scores, ret, lastEval, root, fl, turn, sentDir, other>>

\* The cutoff test made before eval is folded into maxEval / minEval.
CollectedCutFirst(f, eval) ==
  IF f.maximizingPlayer
    THEN IF f.beta <= Max(f.alpha, eval)
           THEN [f EXCEPT !.alpha = Max(f.alpha, eval)]
           ELSE [f EXCEPT !.best = Max(f.best, eval), !.alpha = Max(f.alpha, eval)]
    ELSE IF Min(f.beta, eval) <= f.alpha
           THEN [f EXCEPT !.beta = Min(f.beta, eval)]
           ELSE [f EXCEPT !.best = Min(f.best, eval), !.beta = Min(f.beta, eval)]

\* The frame after the recursive call returned eval: maxEval / minEval and
\* alpha / beta are updated.
Collected(f, eval) ==
  IF f.maximizingPlayer
    THEN [f EXCEPT !.best = Max(f.best, eval), !.alpha = Max(f.alpha, eval)]
    ELSE [f EXCEPT !.best = Min(f.best, eval), !.beta = Min(f.beta, eval)]

\* A recursive call returned into the loop: update, then break or iterate.
MinimaxCollect ==
  /\ pc = "ret"
  /\ stack # <<>>
  /\ LET g == Collected(Top, ret)
     IN  IF Cutoff(g.alpha, g.beta)
           THEN /\ stack' = SetTop(stack, g)
                /\ pc' = "break"
           ELSE /\ stack' = SetTop(stack, [g EXCEPT !.dir_value = NextDir(@)])
                /\ pc' = "loop"
  /\ ret' = 0
  /\ UNCHANGED <<state, my_player, opponent, dir_value, bestScore, bestMove,
                 scores, lastEval, root, fl, turn, sentDir, other>>

\* The loop ran out of directions or was left by break: `return maxEval;` /
\* `return minEval;`
MinimaxReturn ==
  /\ \/ pc = "loop" /\ Top.dir_value >= 4
     \/ pc = "break"
  /\ ret' = Top.best
  /\ stack' = Pop(stack)
  /\ pc' = "ret"
  /\ UNCHANGED <<state, my_player, opponent, dir_value, bestScore, bestMove,
                 scores, lastEval, root, fl, turn, sentDir, other>>

-----------------------------------------------------------------------------
(* One decision on a well-formed snapshot *)

Dims(n) == { d \in (1 .. n) \X (1 .. n) : d[1] * d[2] <= n }

Name == "me"
OppName == "op"

\* A well-formed snapshot of a w x h board: any occupancy, this bot and one
\* opponent, each on a cell of the board.
Snapshots(w, h) ==
  { [gridWidth |-> w, gridHeight |-> h, grid |-> g,
     players |-> << [name |-> Name, position |-> p],
                    [name |-> OppName, position |-> q] >>] :
    g \in SUBSET Cells(w, h), p \in Cells(w, h), q \in Cells(w, h) }

\* The fields after receiveGameState stored a well-formed snapshot, at the
\* entry of decideMove.
InitOn(n) ==
  /\ \E d \in Dims(n) : state \in Snapshots(d[1], d[2])
  /\ my_player = state.players[1]
  /\ opponent = state.players[2]
  /\ pc = "decide"
  /\ dir_value = 0
  /\ bestScore = INT_MIN
  /\ bestMove = 0
  /\ scores = <<>>
  /\ stack = <<>>
  /\ ret = 0
  /\ lastEval = NoEval
  /\ root = DecideRoot
  /\ fl = NoFlood
  /\ turn = 1
  /\ sentDir = 0
  /\ other = NoOther

Init == InitOn(MaxCells)

Next ==
  \/ DecideTry
  \/ DecideSkip
  \/ DecideCollect
  \/ DecideReturn
  \/ MinimaxLeaf
  \/ MinimaxBegin
  \/ MinimaxTry
  \/ MinimaxSkip
  \/ MinimaxCollect
  \/ MinimaxReturn

Spec == Init /\ [][Next]_vars

-----------------------------------------------------------------------------
(* Claims about one decision *)

\* The directions that are legal for my_player in the turn's snapshot.
LegalDirs == { d \in Directions : is_valid_move(state, my_player, d) }

\* C10: whenever at least one direction is legal for self, the direction
\* decideMove returns leads to an in-bounds free cell.
C10_ReturnsLegalWhenOneExists ==
  (pc = "done" /\ LegalDirs # {}) => bestMove \in LegalDirs

\* C1: when self has a legal direction, decideMove returns the first direction,
\* in the order 0,1,2,3, among the legal directions whose search score is the
\* maximum over all legal directions.
C1_FirstMaximalLegalDirection ==
  (pc = "done" /\ LegalDirs # {}) =>
     /\ DOMAIN scores = LegalDirs
     /\ bestMove \in LegalDirs
     /\ \A d \in LegalDirs : scores[d] <= scores[bestMove]
     /\ \A d \in LegalDirs : scores[d] = scores[bestMove] => bestMove <= d

\* The position of a player after the moves applied along the current path:
\* the moved copy made by the innermost call that moved it.
RECURSIVE MovedPosition(_, _, _)
MovedPosition(who, i, fallback) ==
  IF i = 0 THEN fallback
  ELSE IF stack[i].mover = who THEN stack[i].newPlayer.position
  ELSE MovedPosition(who, i - 1, fallback)

\* C3: after a move is applied the destination is blocked and is the moved
\* player's position, and every deeper layer (legality, game-over test, leaf
\* evaluation) works from the destination positions of the players moved.
C3_DeeperLayersUseMovedPositions ==
  stack # <<>> =>
     /\ Top.newPlayer.position \in Top.gameState.grid
     /\ Mover([maximizingPlayer |-> TRUE]).position
          = MovedPosition("my_player", Len(stack), state.players[1].position)
     /\ Mover([maximizingPlayer |-> FALSE]).position
          = MovedPosition("opponent", Len(stack), state.players[2].position)
     /\ EvalMyStart
          = MovedPosition("my_player", Len(stack), state.players[1].position)
     /\ EvalOppStart
          = MovedPosition("opponent", Len(stack), state.players[2].position)

\* C6: every floodFill call made by evaluate starts on an in-bounds cell that
\* is free in the state being evaluated.  Stated for the snapshots in which
\* both players stand on free cells, so that a start cell found occupied was
\* occupied by a move of the search and not by the snapshot.
C6_FloodFillStartsFree ==
  (/\ lastEval.called
   /\ getGridCell(state, state.players[1].position) = 0
   /\ getGridCell(state, state.players[2].position) = 0) =>
     /\ isInsideGrid(lastEval.gameState, lastEval.my_start)
     /\ getGridCell(lastEval.gameState, lastEval.my_start) = 0
     /\ isInsideGrid(lastEval.gameState, lastEval.opp_start)
     /\ getGridCell(lastEval.gameState, lastEval.opp_start) = 0

\* The grid a call's gameState was copied and moved from: the caller's, or
\* the snapshot's for the outermost call.
ParentGrid(i) == IF i = 1 THEN state.grid ELSE stack[i - 1].gameState.grid

\* Each active call's state is its parent's plus exactly the destination cell
\* of the move that created it.
ChildDiffersInOneCell ==
  \A i \in 1 .. Len(stack) :
     LET dest == stack[i].newPlayer.position
     IN  /\ dest \notin ParentGrid(i)
         /\ stack[i].gameState.grid = ParentGrid(i) \cup {dest}
         /\ stack[i].gameState.gridWidth = state.gridWidth
         /\ stack[i].gameState.gridHeight = state.gridHeight

\* C4: decideMove never changes state, my_player or opponent, and no move
\* applied in one branch is visible in another: each call's state is its
\* parent's plus one cell, and a caller's state is the same before and after
\* each of its recursive calls.
C4_InputAndSiblingsUntouched ==
  /\ [][/\ state' = state
        /\ my_player' = my_player
        /\ opponent' = opponent
        /\ \A i \in 1 .. Len(stack) :
             i <= Len(stack') => stack'[i].gameState = stack[i].gameState]_vars
  /\ []ChildDiffersInOneCell

\* Two directions searched from the same snapshot, and decideMove returned.
C4_Witness == pc = "done" /\ Cardinality(DOMAIN scores) >= 2

\* C9: movers alternate my_player, opponent, my_player starting with
\* decideMove's own move; the outermost call has depth MAX_DEPTH - 1 with the
\* opponent to move; each call has its caller's depth minus 1 and the other
\* side; no path is longer than MAX_DEPTH moves; depth is never negative;
\* evaluate runs only at depth 0 or where neither player has a legal move.
C9_AlternationAndDepth ==
  /\ Len(stack) <= MAX_DEPTH
  /\ \A i \in 1 .. Len(stack) :
       /\ stack[i].depth >= 0
       /\ stack[i].depth = MAX_DEPTH - i
       /\ stack[i].maximizingPlayer = (i % 2 = 0)
       /\ stack[i].mover = (IF i % 2 = 1 THEN "my_player" ELSE "opponent")
       /\ i > 1 => /\ stack[i].depth = stack[i - 1].depth - 1
                   /\ stack[i].maximizingPlayer = ~stack[i - 1].maximizingPlayer
  /\ lastEval.called =>
       \/ lastEval.depth = 0
       \/ \A d \in Directions :
            /\ ~is_valid_move(lastEval.gameState, my_player, d)
            /\ ~is_valid_move(lastEval.gameState, opponent, d)

\* A path of MAX_DEPTH moves whose last call, at depth 0, is about to evaluate.
C9_Witness == pc = "call" /\ Len(stack) = MAX_DEPTH /\ Top.depth = 0

-----------------------------------------------------------------------------
(* minimax on its own: any state, depth and side, widest alpha and beta *)

InitSearch ==
  /\ \E d \in Dims(MaxCellsSearch) : state \in Snapshots(d[1], d[2])
  /\ my_player = state.players[1]
  /\ opponent = state.players[2]
  /\ root \in [depth : 0 .. (MAX_DEPTH - 1), maximizingPlayer : BOOLEAN]
  /\ stack = <<Call(state, root.depth, root.maximizingPlayer, INT_MIN, INT_MAX,
                    "none", my_player)>>
  /\ pc = "call"
  /\ dir_value = 0
  /\ bestScore = INT_MIN
  /\ bestMove = 0
  /\ scores = <<>>
  /\ ret = 0
  /\ lastEval = NoEval
  /\ fl = NoFlood
  /\ turn = 1
  /\ sentDir = 0
  /\ other = NoOther

NextSearch ==
  \/ MinimaxLeaf
  \/ MinimaxBegin
  \/ MinimaxTry
  \/ MinimaxSkip
  \/ MinimaxCollect
  \/ MinimaxReturn

SpecSearch == InitSearch /\ [][NextSearch]_vars

MaxOf(S) == CHOOSE v \in S : \A u \in S : u <= v
MinOf(S) == CHOOSE v \in S : \A u \in S : v <= u

\* The value of the same tree searched without alpha and beta: every legal
\* direction of every layer is visited.
RECURSIVE FullMinimax(_, _, _)
FullMinimax(gameState, depth, maximizingPlayer) ==
  IF depth = 0 \/ game_over(gameState) THEN evaluate(gameState)
  ELSE LET mover == IF maximizingPlayer THEN my_player ELSE opponent
           vals == { FullMinimax(movePlayer(gameState, mover, d).gameState,
                                 depth - 1, ~maximizingPlayer) :
                     d \in { e \in Directions :
                             is_valid_move(gameState, mover, e) } }
       IN  IF maximizingPlayer THEN MaxOf(vals \cup {INT_MIN})
           ELSE MinOf(vals \cup {INT_MAX})

\* C2: called with the widest alpha and beta, minimax returns the value of the
\* full, unpruned traversal of the same tree.
C2_PruningKeepsTheValue ==
  (pc = "ret" /\ stack = <<>>) =>
     ret = FullMinimax(state, root.depth, root.maximizingPlayer)

\* A loop left by break with a legal direction still unvisited whose subtree
\* would have changed that call's maxEval / minEval.
C2_Witness ==
  /\ pc = "break"
  /\ \E d \in Directions :
       /\ d > Top.dir_value
       /\ is_valid_move(Top.gameState, Mover(Top), d)
       /\ LET v == FullMinimax(movePlayer(Top.gameState, Mover(Top), d).gameState,
                               Top.depth - 1, ~Top.maximizingPlayer)
          IN  IF Top.maximizingPlayer THEN v > Top.best ELSE v < Top.best

-----------------------------------------------------------------------------
(* floodFill step by step *)

\* One iteration of the while loop of the running floodFill.
FloodPop ==
  /\ pc = "flood"
  /\ fl.queue # <<>>
  /\ fl' = FloodStep(fl.gameState, fl)
  /\ UNCHANGED <<state, my_player, opponent, pc, dir_value, bestScore,
                 bestMove, scores, stack, ret, lastEval, root, turn, sentDir,
                 other>>

\* `return area;` of a floodFill call made on its own.
FloodReturn ==
  /\ pc = "flood"
  /\ fl.queue = <<>>
  /\ fl.caller \in {"SmartestBotClient", "SmarterBotClient"}
  /\ ret' = fl.area
  /\ pc' = "flooded"
  /\ UNCHANGED <<state, my_player, opponent, dir_value, bestScore, bestMove,
                 scores, stack, lastEval, root, fl, turn, sentDir, other>>

\* A board of any occupancy without players.
Boards(n) ==
  UNION { { [gridWidth |-> d[1], gridHeight |-> d[2], grid |-> g,
             players |-> <<>>] : g \in SUBSET Cells(d[1], d[2]) } :
          d \in Dims(n) }

\* The visited vectors SmarterBotClient::decideMove passes: all false (line
\* 62), or the copy of a vector a fill from a free cell has marked (line 72).
SmarterVisited(gameState) ==
  {{}} \cup { FloodRun(gameState, FloodEntry(p, {})).visited :
              p \in Cells(gameState.gridWidth, gameState.gridHeight)
                      \ gameState.grid }

\* floodFill entered on any board: SmartestBotClient's from any cell of the
\* board, SmarterBotClient's from a free cell with a visited vector of its
\* caller.
InitFlood ==
  /\ state \in Boards(MaxCells)
  /\ \/ \E p \in Cells(state.gridWidth, state.gridHeight) :
          fl = FloodCall(state, p, {}, "SmartestBotClient", 0)
     \/ \E p \in Cells(state.gridWidth, state.gridHeight) \ state.grid :
          \E v \in SmarterVisited(state) :
             fl = FloodCall(state, p, v, "SmarterBotClient", 0)
  /\ pc = "flood"
  /\ my_player = [name |-> "", position |-> Vec(0, 0)]
  /\ opponent = [name |-> "", position |-> Vec(0, 0)]
  /\ dir_value = 0
  /\ bestScore = INT_MIN
  /\ bestMove = 0
  /\ scores = <<>>
  /\ stack = <<>>
  /\ ret = 0
  /\ lastEval = NoEval
  /\ root = DecideRoot
  /\ turn = 0
  /\ sentDir = 0
  /\ other = NoOther

NextFlood ==
  \/ FloodPop
  \/ FloodReturn

SpecFlood == InitFlood /\ [][NextFlood]_vars

\* The free cells of a board.
FreeCells(gameState) ==
  Cells(gameState.gridWidth, gameState.gridHeight) \ gameState.grid

Adjacent(a, b) ==
  \/ a.x = b.x /\ (a.y = b.y + 1 \/ b.y = a.y + 1)
  \/ a.y = b.y /\ (a.x = b.x + 1 \/ b.x = a.x + 1)

\* The free cells joined to the cells of S by steps between adjacent free cells.
RECURSIVE Connected(_, _)
Connected(gameState, S) ==
  LET more == S \cup { c \in FreeCells(gameState) : \E a \in S : Adjacent(a, c) }
  IN  IF more = S THEN S ELSE Connected(gameState, more)

-----------------------------------------------------------------------------
(* One decision with evaluate and its two floodFill calls run step by step *)

\* evaluate is entered: `auto my_area = floodFill(gameState, my_player.position);`
EvalStart ==
  /\ pc = "call"
  /\ IsLeaf(Top)
  /\ fl' = FloodCall(Top.gameState, EvalMyStart, {}, "my_area", 0)
  /\ pc' = "flood"
  /\ UNCHANGED <<state, my_player, opponent, dir_value, bestScore, bestMove,
                 scores, stack, ret, lastEval, root, turn, sentDir, other>>

\* The first fill returned: `auto opp_area = floodFill(gameState, opponent.position);`
EvalOpp ==
  /\ pc = "flood"
  /\ fl.queue = <<>>
  /\ fl.caller = "my_area"
  /\ fl' = FloodCall(fl.gameState, EvalOppStart, {}, "opp_area", fl.area)
  /\ UNCHANGED <<state, my_player, opponent, pc, dir_value, bestScore,
                 bestMove, scores, stack, ret, lastEval, root, turn, sentDir,
                 other>>

\* The second fill returned: `return my_area - opp_area;`, and minimax returns it.
EvalReturn ==
  /\ pc = "flood"
  /\ fl.queue = <<>>
  /\ fl.caller = "opp_area"
  /\ ret' = fl.my_area - fl.area
  /\ lastEval' = [called |-> TRUE, gameState |-> Top.gameState,
                  depth |-> Top.depth,
                  my_start |-> EvalMyStart, opp_start |-> EvalOppStart,
                  value |-> fl.my_area - fl.area]
  /\ fl' = NoFlood
  /\ stack' = Pop(stack)
  /\ pc' = "ret"
  /\ UNCHANGED <<state, my_player, opponent, dir_value, bestScore, bestMove,
                 scores, root, turn, sentDir, other>>

InitLive == InitOn(MaxCellsLive)

NextLive ==
  \/ DecideTry
  \/ DecideSkip
  \/ DecideCollect
  \/ DecideReturn
  \/ EvalStart
  \/ FloodPop
  \/ EvalOpp
  \/ EvalReturn
  \/ MinimaxBegin
  \/ MinimaxTry
  \/ MinimaxSkip
  \/ MinimaxCollect
  \/ MinimaxReturn

\* The engine is single-threaded and never waits: a step that can be taken is taken.
SpecLive == InitLive /\ [][NextLive]_vars /\ WF_vars(NextLive)

\* C7: decideMove returns a direction from every well-formed state; every
\* floodFill call empties its queue and every minimax call returns.
C7_DecideMoveTerminates ==
  /\ <>(pc = "done" /\ stack = <<>> /\ bestMove \in Directions)
  /\ (pc = "flood") ~> (pc = "flood" /\ fl.queue = <<>>)
  /\ \A n \in 1 .. MAX_DEPTH :
       (pc = "call" /\ Len(stack) = n) ~> (pc = "ret" /\ Len(stack) = n - 1)

\* decideMove returned on the 1 x 1 board.
C7_Witness ==
  /\ pc = "done"
  /\ state.gridWidth = 1 /\ state.gridHeight = 1

-----------------------------------------------------------------------------
(* run: the receive-decide-send loop *)

\* A default-constructed Player.
DefaultPlayer == [name |-> "", position |-> Vec(0, 0)]

\* The player lists of the snapshots received: this bot, alone or followed
\* by an opponent.
PlayerLists(w, h) ==
  LET me == { [name |-> Name, position |-> p] : p \in Cells(w, h) }
      op == { [name |-> OppName, position |-> p] : p \in Cells(w, h) }
  IN  { <<a>> : a \in me } \cup { <<a, b>> : a \in me, b \in op }

TurnSnapshots(w, h) ==
  { [gridWidth |-> w, gridHeight |-> h, grid |-> g, players |-> l] :
    g \in SUBSET Cells(w, h), l \in PlayerLists(w, h) }

\* The loop of receiveGameState over state.players: the last player whose
\* name passes the test, or the old field if there is none.
RECURSIVE LastPlayer(_, _, _, _)
LastPlayer(players, i, isMine, old) ==
  IF i = 0 THEN old
  ELSE IF (players[i].name = Name) = isMine THEN players[i]
  ELSE LastPlayer(players, i - 1, isMine, old)

\* receiveGameState, then sendMove enters decideMove.
ReceiveGameState ==
  /\ pc = "recv"
  /\ turn < (IF other.set THEN 1 ELSE MaxTurns)
  /\ \E s \in (IF turn = 0 /\ ~other.set
                 THEN UNION { TurnSnapshots(d[1], d[2]) : d \in Dims(MaxCellsTurns) }
                 ELSE IF other.set THEN {other.snapshot}
                 ELSE TurnSnapshots(state.gridWidth, state.gridHeight)) :
       /\ state' = s
       /\ my_player' = LastPlayer(s.players, Len(s.players), TRUE, my_player)
       /\ opponent' = LastPlayer(s.players, Len(s.players), FALSE, opponent)
  /\ turn' = turn + 1
  /\ pc' = "decide"
  /\ dir_value' = 0
  /\ bestScore' = INT_MIN
  /\ bestMove' = 0
  /\ scores' = <<>>
  /\ lastEval' = NoEval
  /\ UNCHANGED <<stack, ret, root, fl, sentDir, other>>

\* `connection.sendMove(move);`
SendMove ==
  /\ pc = "done"
  /\ sentDir' = bestMove
  /\ pc' = "recv"
  /\ UNCHANGED <<state, my_player, opponent, dir_value, bestScore, bestMove,
                 scores, stack, ret, lastEval, root, fl, turn, other>>

\* The process ends after a turn and a second process is started with the same
\* bot name; it will be sent the snapshot of the first one's last turn.
Restart ==
  /\ pc = "recv"
  /\ turn >= 1
  /\ ~other.set
  /\ other' = [set |-> TRUE, snapshot |-> state, dir |-> sentDir]
  /\ state' = EmptyState
  /\ my_player' = DefaultPlayer
  /\ opponent' = DefaultPlayer
  /\ turn' = 0
  /\ sentDir' = 0
  /\ dir_value' = 0
  /\ bestScore' = INT_MIN
  /\ bestMove' = 0
  /\ scores' = <<>>
  /\ lastEval' = NoEval
  /\ UNCHANGED <<pc, stack, ret, root, fl>>

\* The state after the constructor.
InitTurns ==
  /\ state = EmptyState
  /\ my_player = DefaultPlayer
  /\ opponent = DefaultPlayer
  /\ pc = "recv"
  /\ dir_value = 0
  /\ bestScore = INT_MIN
  /\ bestMove = 0
  /\ scores = <<>>
  /\ stack = <<>>
  /\ ret = 0
  /\ lastEval = NoEval
  /\ root = DecideRoot
  /\ fl = NoFlood
  /\ turn = 0
  /\ sentDir = 0
  /\ other = NoOther

NextTurns ==
  \/ ReceiveGameState
  \/ DecideTry
  \/ DecideSkip
  \/ DecideCollect
  \/ DecideReturn
  \/ MinimaxLeaf
  \/ MinimaxBegin
  \/ MinimaxTry
  \/ MinimaxSkip
  \/ MinimaxCollect
  \/ MinimaxReturn
  \/ SendMove
  \/ Restart

SpecTurns == InitTurns /\ [][NextTurns]_vars

\* C8: two runs with the same bot name that receive the same snapshot in a
\* turn send the same direction in that turn, whatever they received before.
C8_DirectionDependsOnSnapshotOnly ==
  (other.set /\ pc = "recv" /\ turn = 1 /\ state = other.snapshot) =>
     sentDir = other.dir

====
